---- MODULE Spec2Model ----
(***************************************************************************)
(* Model of expense_tracker.py: the ExpenseManager store (load, save, add, *)
(* delete, summary, validation) and the ExpenseTrackerCLI handlers that    *)
(* drive it (manual add, delete by id, CSV export, CSV import).            *)
(*                                                                         *)
(* Values.  Every Python str is a TLA+ string; Python None is the string   *)
(* None below.  A Python float is a record [nan, hi, lo]: nan marks NaN,   *)
(* otherwise the value is hi * 2^53 + lo with |lo| far below 2^53, and     *)
(* FAdd rounds a sum to the nearest double exactly as IEEE 754 does.       *)
(* A file is a record [kind, json, header, rows]:                          *)
(*   "missing"  no such file          "empty"   zero bytes                 *)
(*   "garbage"  text json cannot parse (any torn prefix of a dump)         *)
(*   "json"     a JSON array, json = its objects                           *)
(*   "csv"      a header line and data lines, each a sequence of fields    *)
(***************************************************************************)
EXTENDS Integers, Sequences, FiniteSets, TLC

VARIABLES
    expenses,   \* ExpenseManager.expenses
    disk,       \* the files, by name
    last,       \* the last call: its name, input, return value, exception
    pc,         \* "store": the manager used directly; "start", "menu",
                \* "crashed": where the CLI process is
    events      \* what has happened to the data file in the session: a
                \* save reported failure, an export was written over it

vars == <<expenses, disk, last, pc, events>>

\* Largest number of records the store is grown to.
MaxLen == 3

-----------------------------------------------------------------------------
(* Text and numbers                                                        *)

None == "<None>"

\* str.strip on the model's vocabulary: the only texts with leading or
\* trailing blanks are the ones listed.
Strip(s) ==
    CASE s = " Food " -> "Food"
      [] s = "  "     -> ""
      [] s = " Lunch" -> "Lunch"
      [] s = " 1 "    -> "1"
      [] OTHER        -> s

F(h, l) == [nan |-> FALSE, hi |-> h, lo |-> l]
NaN == [nan |-> TRUE, hi |-> 0, lo |-> 0]
Zero == F(0, 0)

RECURSIVE P2(_)
\* Largest power of two not above h (h >= 1).
P2(h) == IF h < 2 THEN 1 ELSE 2 * P2(h \div 2)

\* Distance between neighbouring doubles around hi * 2^53 + lo.
Ulp(h, l) ==
    IF h = 0 THEN 1
    ELSE IF l >= 0 THEN 2 * P2(h)
    ELSE IF h = 1 THEN 1
    ELSE 2 * P2(h - 1)

\* Round l to a multiple of s, to nearest, ties to the even multiple.
RoundTiesEven(l, s) ==
    LET q == l \div s
        r == l - q * s
    IN  IF 2 * r < s THEN q * s
        ELSE IF 2 * r > s THEN (q + 1) * s
        ELSE IF q % 2 = 0 THEN q * s
        ELSE (q + 1) * s

\* Python's float + float.
FAdd(a, b) ==
    IF a.nan \/ b.nan THEN NaN
    ELSE LET h == a.hi + b.hi
             l == a.lo + b.lo
         IN  F(h, RoundTiesEven(l, Ulp(h, l)))

\* Python's  x <= 0  on a float (False for NaN).
FLe0(a) == ~a.nan /\ (a.hi < 0 \/ (a.hi = 0 /\ a.lo <= 0))

\* total / count, kept as the quotient of its operands.
FDiv(t, n) == [num |-> t, den |-> n]

\* The decimal literals of the vocabulary and the doubles they denote.
FloatLiterals ==
    { <<"1", F(0, 1)>>, <<"1.0", F(0, 1)>>,
      <<"-5", F(0, -5)>>, <<"-5.0", F(0, -5)>>,
      <<"9007199254740992", F(1, 0)>>, <<"9007199254740992.0", F(1, 0)>>,
      <<"nan", NaN>>, <<"NaN", NaN>> }

\* float(s): the value, or the exception float raises.
ParseFloat(s) ==
    IF s = None THEN [exc |-> "TypeError", v |-> Zero]
    ELSE IF \E p \in FloatLiterals : p[1] = Strip(s)
         THEN [exc |-> "none",
               v |-> (CHOOSE p \in FloatLiterals : p[1] = Strip(s))[2]]
         ELSE [exc |-> "ValueError", v |-> Zero]

\* repr(float) / str(float): the shortest literal that reads back.
FloatRepr(v) ==
    CHOOSE t \in {"1.0", "-5.0", "9007199254740992.0", "nan"} :
        <<t, v>> \in FloatLiterals

-----------------------------------------------------------------------------
(* Files                                                                   *)

DataFile == "expenses.json"
CsvFile == "expenses.csv"
Files == {DataFile, CsvFile}

File(k, j, h, r) == [kind |-> k, json |-> j, header |-> h, rows |-> r]
Missing == File("missing", <<>>, <<>>, <<>>)
Empty == File("empty", <<>>, <<>>, <<>>)
Garbage == File("garbage", <<>>, <<>>, <<>>)
JsonFile(doc) == File("json", doc, <<>>, <<>>)
CsvText(header, rows) == File("csv", <<>>, header, rows)

\* JsonDumpObject with the creation time lost: written as null.
JsonDumpObject_NullCreatedAt(e) ==
    [k \in DOMAIN e |->
        IF k = "amount"
        THEN [t |-> "number", s |-> IF e[k].nan THEN "NaN" ELSE FloatRepr(e[k])]
        ELSE IF e[k] = None \/ k = "created_at" THEN [t |-> "null", s |-> ""]
        ELSE [t |-> "string", s |-> e[k]]]

\* json.dump of one dict: floats as number tokens (NaN is written NaN),
\* None as null, str as string tokens.
JsonDumpObject(e) ==
    [k \in DOMAIN e |->
        IF k = "amount"
        THEN [t |-> "number", s |-> IF e[k].nan THEN "NaN" ELSE FloatRepr(e[k])]
        ELSE IF e[k] = None THEN [t |-> "null", s |-> ""]
        ELSE [t |-> "string", s |-> e[k]]]

JsonDump(exps) == JsonFile([i \in 1..Len(exps) |-> JsonDumpObject(exps[i])])

\* json.load of one object: number tokens read as floats.
JsonLoadObject(o) ==
    [k \in DOMAIN o |->
        CASE o[k].t = "number" -> ParseFloat(o[k].s).v
          [] o[k].t = "null"   -> None
          [] OTHER             -> o[k].s]

JsonLoad(file) == [i \in 1..Len(file.json) |-> JsonLoadObject(file.json[i])]

-----------------------------------------------------------------------------
(* ExpenseManager                                                          *)

ExpenseKeys == {"id", "amount", "category", "description", "date", "created_at"}

\* ExpenseManager.load_expenses.  io = "denied": the file exists but open()
\* is refused.
load_expenses(exps, file, io) ==
    IF file.kind = "missing" THEN [expenses |-> <<>>, exc |-> "none"]
    ELSE IF io = "denied" THEN [expenses |-> exps, exc |-> "PermissionError"]
    ELSE IF file.kind = "json" THEN [expenses |-> JsonLoad(file), exc |-> "none"]
    ELSE [expenses |-> <<>>, exc |-> "none"]

\* save_expenses without its try/except: the I/O error reaches the caller.
save_expenses_Raising(exps, file, io) ==
    CASE io = "ok"          -> [file |-> JsonDump(exps), ret |-> TRUE, exc |-> "none"]
      [] io = "open_fails"  -> [file |-> file, ret |-> None, exc |-> "OSError"]
      [] io = "write_fails" -> [file |-> Garbage, ret |-> None, exc |-> "OSError"]

\* ExpenseManager.save_expenses.  io: "ok", "open_fails" (open() raises, the
\* file is untouched) or "write_fails" (the file was truncated by open() and
\* the dump broke off).
save_expenses(exps, file, io) ==
    CASE io = "ok"          -> [file |-> JsonDump(exps), ret |-> TRUE, exc |-> "none"]
      [] io = "open_fails"  -> [file |-> file, ret |-> FALSE, exc |-> "none"]
      [] io = "write_fails" -> [file |-> Garbage, ret |-> FALSE, exc |-> "none"]

\* add_expense storing category and description as given, unstripped.
add_expense_Unstripped(exps, amount, category, description, expense_date, uuid, now, today) ==
    LET expense == [id |-> uuid,
                    amount |-> amount,
                    category |-> category,
                    description |-> description,
                    date |-> IF expense_date = None THEN today ELSE expense_date,
                    created_at |-> now]
    IN  [expenses |-> Append(exps, expense), ret |-> expense]

\* ExpenseManager.add_expense.  uuid, now and today are what uuid.uuid4,
\* datetime.now and date.today return.  amount is a float already (the CLI
\* converts the text before the call), and float() of a float is that float.
add_expense(exps, amount, category, description, expense_date, uuid, now, today) ==
    LET expense == [id |-> uuid,
                    amount |-> amount,
                    category |-> Strip(category),
                    description |-> Strip(description),
                    date |-> IF expense_date = None THEN today ELSE expense_date,
                    created_at |-> now]
    IN  [expenses |-> Append(exps, expense), ret |-> expense]

\* delete_expense removing the first record with the id only.
delete_expense_FirstOnly(exps, expense_id) ==
    LET hits == {i \in 1..Len(exps) : exps[i].id = expense_id}
        first == CHOOSE i \in hits : \A j \in hits : i <= j
    IN  IF \E i \in 1..Len(exps) : "id" \notin DOMAIN exps[i]
        THEN [expenses |-> exps, ret |-> None, exc |-> "KeyError"]
        ELSE IF hits = {}
        THEN [expenses |-> exps, ret |-> FALSE, exc |-> "none"]
        ELSE [expenses |-> SubSeq(exps, 1, first - 1) \o
                           SubSeq(exps, first + 1, Len(exps)),
              ret |-> TRUE, exc |-> "none"]

\* ExpenseManager.delete_expense: exp['id'] raises KeyError on a dict without
\* that key, before self.expenses is assigned.
delete_expense(exps, expense_id) ==
    IF \E i \in 1..Len(exps) : "id" \notin DOMAIN exps[i]
    THEN [expenses |-> exps, ret |-> None, exc |-> "KeyError"]
    ELSE LET kept == SelectSeq(exps, LAMBDA e : e.id # expense_id)
         IN  [expenses |-> kept, ret |-> Len(kept) < Len(exps), exc |-> "none"]

RECURSIVE SumAmounts(_)
\* sum(exp['amount'] for exp in ...) and the loop's running sums: left to
\* right from 0.
SumAmounts(s) ==
    IF s = <<>> THEN Zero
    ELSE FAdd(SumAmounts(SubSeq(s, 1, Len(s) - 1)), s[Len(s)].amount)

\* ExpenseManager.get_summary.
get_summary(exps) ==
    IF exps = <<>>
    THEN [ret |-> [total |-> Zero, count |-> 0, average |-> Zero,
                   categories |-> <<>>],
          exc |-> "none"]
    ELSE IF \E i \in 1..Len(exps) : ~({"amount", "category"} \subseteq DOMAIN exps[i])
    THEN [ret |-> None, exc |-> "KeyError"]
    ELSE LET total == SumAmounts(exps)
             count == Len(exps)
             cats == {exps[i].category : i \in 1..Len(exps)}
             categories ==
                 [c \in cats |->
                     SumAmounts(SelectSeq(exps, LAMBDA e : e.category = c))]
         IN  [ret |-> [total |-> total, count |-> count,
                       average |-> IF count > 0 THEN FDiv(total, count) ELSE Zero,
                       categories |-> categories],
              exc |-> "none"]

\* ExpenseManager.validate_expense.
validate_expense(amount, category, description) ==
    LET p == ParseFloat(amount)
        e1 == IF p.exc = "ValueError" THEN <<"Amount must be a valid number">>
              ELSE IF FLe0(p.v) THEN <<"Amount must be positive">>
              ELSE <<>>
        e2 == IF Strip(category) = "" THEN <<"Category is required">> ELSE <<>>
        e3 == IF Strip(description) = "" THEN <<"Description is required">> ELSE <<>>
    IN  e1 \o e2 \o e3

\* The timestamps of the vocabulary, oldest first (ISO strings order as text).
TimeLine == <<"2024-02-28T09:00:00", "2024-03-01T10:00:00">>
TimeRank(t) == CHOOSE i \in 1..Len(TimeLine) : TimeLine[i] = t

RECURSIVE SortNewestFirst(_)
\* sorted(..., key=created_at, reverse=True): stable, newest first.
SortNewestFirst(s) ==
    IF Len(s) <= 1 THEN s
    ELSE LET m == CHOOSE i \in 1..Len(s) :
                     /\ \A j \in 1..Len(s) :
                            TimeRank(s[j].created_at) <= TimeRank(s[i].created_at)
                     /\ \A j \in 1..(i - 1) :
                            TimeRank(s[j].created_at) < TimeRank(s[i].created_at)
         IN  <<s[m]>> \o SortNewestFirst(SubSeq(s, 1, m - 1) \o SubSeq(s, m + 1, Len(s)))

\* ExpenseManager.get_all_expenses: x['created_at'] raises KeyError on a dict
\* without the key, and ordering None against anything raises TypeError.
get_all_expenses(exps) ==
    IF \E i \in 1..Len(exps) : "created_at" \notin DOMAIN exps[i]
    THEN [ret |-> None, exc |-> "KeyError"]
    ELSE IF Len(exps) >= 2 /\ \E i \in 1..Len(exps) : exps[i].created_at = None
    THEN [ret |-> None, exc |-> "TypeError"]
    ELSE [ret |-> SortNewestFirst(exps), exc |-> "none"]

-----------------------------------------------------------------------------
(* ExpenseTrackerCLI                                                       *)

\* ExpenseTrackerCLI.add_expense_manually: the four answers are stripped, an
\* empty date becomes today, nothing is added when validation reports errors,
\* otherwise the record is added and the store saved.
add_expense_manually(exps, file, amount_in, category_in, description_in, date_in, uuid, now, today, io) ==
    LET amount == Strip(amount_in)
        category == Strip(category_in)
        description == Strip(description_in)
        date_input == IF Strip(date_in) = "" THEN today ELSE Strip(date_in)
        errors == validate_expense(amount, category, description)
        added == add_expense(exps, ParseFloat(amount).v, category, description,
                             date_input, uuid, now, today)
        saved == save_expenses(added.expenses, file, io)
    IN  IF errors # <<>>
        THEN [expenses |-> exps, file |-> file, status |-> "invalid",
              errors |-> errors]
        ELSE [expenses |-> added.expenses, file |-> saved.file,
              status |-> IF saved.ret THEN "added" ELSE "save_failed",
              errors |-> errors]

\* ExpenseTrackerCLI.list_expenses up to its options prompt: the exception
\* raised while sorting and printing the records, if any.
list_expenses(exps) ==
    LET all == get_all_expenses(exps)
    IN  IF all.exc # "none" THEN all.exc
        ELSE IF \E i \in 1..Len(exps) : ~(ExpenseKeys \subseteq DOMAIN exps[i])
        THEN "KeyError"
        ELSE IF \E i \in 1..Len(exps) : exps[i].created_at = None
        THEN "TypeError"
        ELSE "none"

\* cli_delete_expense that forgets the save after a delete.
cli_delete_expense_NoSave(exps, file, id_in, io) ==
    LET shown == list_expenses(exps)
        deleted == delete_expense(exps, Strip(id_in))
    IN  IF shown # "none"
        THEN [expenses |-> exps, file |-> file, status |-> "error", exc |-> shown]
        ELSE IF exps = <<>>
        THEN [expenses |-> exps, file |-> file, status |-> "no_expenses",
              exc |-> "none"]
        ELSE IF deleted.ret
        THEN [expenses |-> deleted.expenses, file |-> file, status |-> "deleted",
              exc |-> "none"]
        ELSE [expenses |-> exps, file |-> file, status |-> "not_found",
              exc |-> "none"]

\* ExpenseTrackerCLI.delete_expense reached from the view: the listing, the
\* id prompt, the delete and, when something was deleted, the save.
cli_delete_expense(exps, file, id_in, io) ==
    LET shown == list_expenses(exps)
        deleted == delete_expense(exps, Strip(id_in))
        saved == save_expenses(deleted.expenses, file, io)
    IN  IF shown # "none"
        THEN [expenses |-> exps, file |-> file, status |-> "error", exc |-> shown]
        ELSE IF exps = <<>>
        THEN [expenses |-> exps, file |-> file, status |-> "no_expenses",
              exc |-> "none"]
        ELSE IF deleted.ret
        THEN [expenses |-> deleted.expenses, file |-> saved.file,
              status |-> IF saved.ret THEN "deleted" ELSE "save_failed",
              exc |-> "none"]
        ELSE [expenses |-> exps, file |-> file, status |-> "not_found",
              exc |-> "none"]

FieldNames == <<"id", "amount", "category", "description", "date", "created_at">>
Required == {"id", "amount", "category", "description", "date"}

\* csv.DictWriter.writerow: str() of each value, the empty text for None and
\* for a missing key.
ExportRow(e) ==
    [i \in 1..Len(FieldNames) |->
        LET k == FieldNames[i]
        IN  IF k \notin DOMAIN e THEN ""
            ELSE IF k = "amount" THEN FloatRepr(e[k])
            ELSE IF e[k] = None THEN ""
            ELSE e[k]]

\* ExpenseTrackerCLI.export_expenses on the file chosen.  open(filename, 'w')
\* comes first: it creates or empties the file, or raises (io =
\* "open_fails").  A dict with a key outside FieldNames makes writerow raise
\* after the header and the rows before it were written.
export_expenses(exps, file, io) ==
    LET bad == {i \in 1..Len(exps) : ~(DOMAIN exps[i] \subseteq ExpenseKeys)}
        n == IF bad = {} THEN Len(exps)
             ELSE (CHOOSE i \in bad : \A j \in bad : i <= j) - 1
    IN  IF io = "open_fails" THEN [file |-> file, status |-> "failed"]
        ELSE IF exps = <<>> THEN [file |-> Empty, status |-> "nothing"]
        ELSE [file |-> CsvText(FieldNames, [i \in 1..n |-> ExportRow(exps[i])]),
              status |-> IF bad = {} THEN "saved" ELSE "failed"]

\* csv.DictReader: one dict per data line, a short line leaves its last keys
\* None.
DictRow(header, fields) ==
    [k \in {header[i] : i \in 1..Len(header)} |->
        LET i == CHOOSE j \in 1..Len(header) : header[j] = k
        IN  IF i <= Len(fields) THEN fields[i] ELSE None]

RECURSIVE ImportRows(_, _, _, _)
\* The row loop of import_expenses: imported so far, and how the loop ended.
ImportRows(header, rows, imported, now) ==
    IF rows = <<>> THEN [status |-> "ok", imported |-> imported]
    ELSE LET row == DictRow(header, Head(rows))
             amount == ParseFloat(row.amount)
             expense == [id |-> row.id,
                         amount |-> amount.v,
                         category |-> Strip(row.category),
                         description |-> Strip(row.description),
                         date |-> row.date,
                         created_at |-> IF "created_at" \in DOMAIN row
                                        THEN row.created_at ELSE now]
         IN  IF ~(Required \subseteq DOMAIN row)
             THEN [status |-> "missing_columns", imported |-> imported]
             ELSE IF amount.exc = "TypeError"
             THEN [status |-> "TypeError", imported |-> imported]
             ELSE IF amount.exc = "ValueError" \/ FLe0(amount.v)
             THEN ImportRows(header, Tail(rows), imported, now)
             ELSE IF row.category = None \/ row.description = None
             THEN [status |-> "AttributeError", imported |-> imported]
             ELSE ImportRows(header, Tail(rows), Append(imported, expense), now)

\* ExpenseTrackerCLI.import_expenses.
import_expenses(exps, file, csv, now, io) ==
    LET read == IF csv.kind = "csv" THEN ImportRows(csv.header, csv.rows, <<>>, now)
                ELSE [status |-> "ok", imported |-> <<>>]
        extended == exps \o read.imported
        saved == save_expenses(extended, file, io)
    IN  IF csv.kind = "missing"
        THEN [expenses |-> exps, file |-> file, status |-> "not_found", added |-> 0]
        ELSE IF read.status # "ok"
        THEN [expenses |-> exps, file |-> file, status |-> read.status, added |-> 0]
        ELSE IF read.imported = <<>>
        THEN [expenses |-> exps, file |-> file, status |-> "none_valid", added |-> 0]
        ELSE [expenses |-> extended, file |-> saved.file,
              status |-> IF saved.ret THEN "added" ELSE "save_failed",
              added |-> Len(read.imported)]

-----------------------------------------------------------------------------
(* Environment                                                             *)

Ids == {"a1b2c3d4", "e5f6a7b8"}
Times == {"2024-03-01T10:00:00"}
Todays == {"2024-03-01"}

\* A dict json.load accepts that is not an expense.
JunkObject == [note |-> [t |-> "string", s |-> "x"]]

Result(op, arg, ret, exc) == [op |-> op, arg |-> arg, ret |-> ret, exc |-> exc]

\* The calls of add_expense: the four arguments (the store does not validate
\* them) and, fifth, the id uuid4 hands out for the call.  Two calls get the
\* same id.
AddInputs ==
    { <<F(0, 1), " Food ", " Lunch", "2024-01-15", "a1b2c3d4">>,
      <<F(0, 1), " Food ", " Lunch", "2024-01-15", "e5f6a7b8">>,
      <<F(1, 0), "food", "Rent", None, "e5f6a7b8">> }

Init ==
    /\ expenses = <<>>
    /\ disk \in {[f \in Files |-> IF f = DataFile THEN d ELSE Missing] :
                    d \in {Missing, Garbage, JsonFile(<<JunkObject>>)}}
    /\ last = Result("init", None, None, "none")
    /\ pc = "store"
    /\ events = {}

Load ==
    \E io \in {"ok", "denied"} :
        LET r == load_expenses(expenses, disk[DataFile], io)
        IN  /\ expenses' = r.expenses
            /\ last' = Result("load", None, None, r.exc)
            /\ UNCHANGED <<disk, pc, events>>

Save ==
    \E io \in {"ok", "open_fails", "write_fails"} :
        LET r == save_expenses(expenses, disk[DataFile], io)
        IN  /\ disk' = [disk EXCEPT ![DataFile] = r.file]
            /\ last' = Result("save", io, r.ret, r.exc)
            /\ UNCHANGED <<expenses, pc, events>>

Add ==
    \E inp \in AddInputs, now \in Times, today \in Todays :
        LET r == add_expense(expenses, inp[1], inp[2], inp[3], inp[4],
                             inp[5], now, today)
        IN  /\ Len(expenses) < MaxLen
            /\ expenses' = r.expenses
            /\ last' = Result("add", inp, r.ret, "none")
            /\ UNCHANGED <<disk, pc, events>>

Delete ==
    \E id \in Ids :
        LET r == delete_expense(expenses, id)
        IN  /\ expenses' = r.expenses
            /\ last' = Result("delete", id, r.ret, r.exc)
            /\ UNCHANGED <<disk, pc, events>>

List ==
    LET r == get_all_expenses(expenses)
    IN  /\ last' = Result("list", None, r.ret, r.exc)
        /\ UNCHANGED <<expenses, disk, pc, events>>

Summary ==
    LET r == get_summary(expenses)
    IN  /\ last' = Result("summary", None, r.ret, r.exc)
        /\ UNCHANGED <<expenses, disk, pc, events>>

Next == Load \/ Save \/ Add \/ Delete \/ List \/ Summary

Spec == Init /\ [][Next]_vars

-----------------------------------------------------------------------------
(* A CLI session                                                           *)

\* Largest number of records a session grows the store to.
MaxCli == 2

\* What the user types at the four prompts of the manual entry: answers
\* that pass validation, and answers that do not.
ManualInputs ==
    { <<" 1 ", " Food ", "Lunch", "tomorrow">>,
      <<"-5", "  ", "", "">> }

\* The ids typed at the delete prompt.
DeleteInputs == {"a1b2c3d4", "nosuchid"}

Header5 == <<"id", "amount", "category", "description", "date">>

\* The CSV files a session may find under CsvFile.
CsvFixtures ==
    { Missing,
      \* no category column
      CsvText(<<"id", "amount", "description", "date">>,
              << <<"x1", "1", "Lunch", "2024-01-15">> >>),
      \* good and bad amounts, a blank category and description, a date that
      \* is none
      CsvText(FieldNames,
              << <<"x1", "1", " Food ", "Lunch", "2024-01-15", "2024-02-28T09:00:00">>,
                 <<"x2", "-5", "Food", "Lunch", "2024-01-15", "2024-02-28T09:00:00">>,
                 <<"x1", "9007199254740992", "  ", "", "tomorrow",
                   "2024-02-28T09:00:00">>,
                 <<"x3", "abc", "Food", "Lunch", "2024-01-15", "2024-02-28T09:00:00">> >>),
      \* a line that breaks off after the id
      CsvText(Header5,
              << <<"x1", "1", "Food", "Lunch", "2024-01-15">>, <<"x2">> >>) }

\* A data file written by an earlier session.
SavedBefore ==
    JsonDump(<<[id |-> "e5f6a7b8", amount |-> F(0, 1), category |-> "Food",
                description |-> "Lunch", date |-> "2024-01-15",
                created_at |-> "2024-02-28T09:00:00"]>>)

InitCLI ==
    /\ expenses = <<>>
    /\ disk \in {[f \in Files |-> IF f = DataFile THEN d ELSE c] :
                    d \in {Missing, SavedBefore}, c \in CsvFixtures}
    /\ last = Result("init", None, None, "none")
    /\ pc = "start"
    /\ events = {}

\* What uuid.uuid4 and the save's I/O do in a session.
CliIds == {"a1b2c3d4"}
CliSaveIo == {"ok", "open_fails"}

SaveFailure(status) == IF status = "save_failed" THEN {"save_failed"} ELSE {}

\* ExpenseTrackerCLI.__init__ / ExpenseManager.__init__: an exception of the
\* load ends the process.
Startup ==
    \E io \in {"ok", "denied"} :
        LET r == load_expenses(<<>>, disk[DataFile], io)
        IN  /\ pc = "start"
            /\ expenses' = r.expenses
            /\ pc' = IF r.exc = "none" THEN "menu" ELSE "crashed"
            /\ last' = Result("startup", io, None, r.exc)
            /\ UNCHANGED <<disk, events>>

AddManually ==
    \E inp \in ManualInputs, uuid \in CliIds, now \in Times, today \in Todays,
       io \in CliSaveIo :
        LET r == add_expense_manually(expenses, disk[DataFile],
                                      inp[1], inp[2], inp[3], inp[4],
                                      uuid, now, today, io)
        IN  /\ pc = "menu"
            /\ Len(r.expenses) <= MaxCli
            /\ expenses' = r.expenses
            /\ disk' = [disk EXCEPT ![DataFile] = r.file]
            /\ last' = Result("add_manually", inp, r.status, "none")
            /\ events' = events \cup SaveFailure(r.status)
            /\ pc' = pc

ViewAndDelete ==
    \E id \in DeleteInputs, io \in CliSaveIo :
        LET r == cli_delete_expense(expenses, disk[DataFile], id, io)
        IN  /\ pc = "menu"
            /\ expenses' = r.expenses
            /\ disk' = [disk EXCEPT ![DataFile] = r.file]
            /\ last' = Result("delete", id, r.status, r.exc)
            /\ events' = events \cup SaveFailure(r.status)
            /\ pc' = pc

Export ==
    \E filename \in Files, io \in {"ok", "open_fails"} :
        LET r == export_expenses(expenses, disk[filename], io)
        IN  /\ pc = "menu"
            /\ disk' = [disk EXCEPT ![filename] = r.file]
            /\ last' = Result("export", filename, r.status, "none")
            /\ events' = events \cup
                  (IF filename = DataFile /\ io = "ok" THEN {"export_over_data"} ELSE {})
            /\ UNCHANGED <<expenses, pc>>

Import ==
    \E now \in Times, io \in CliSaveIo :
        LET r == import_expenses(expenses, disk[DataFile], disk[CsvFile], now, io)
        IN  /\ pc = "menu"
            /\ Len(r.expenses) <= MaxCli
            /\ expenses' = r.expenses
            /\ disk' = [disk EXCEPT ![DataFile] = r.file]
            /\ last' = Result("import", io, r.status, "none")
            /\ events' = events \cup SaveFailure(r.status)
            /\ pc' = pc

ShowSummary ==
    LET r == get_summary(expenses)
    IN  /\ pc = "menu"
        /\ last' = Result("summary", None, r.ret, r.exc)
        /\ UNCHANGED <<expenses, disk, pc, events>>

NextCLI == Startup \/ AddManually \/ ViewAndDelete \/ Export \/ Import \/ ShowSummary

SpecCLI == InitCLI /\ [][NextCLI]_vars

-----------------------------------------------------------------------------
(* Properties of the store                                                 *)

\* Python's  x > 0  on a float.
FGt0(a) == ~a.nan /\ (a.hi > 0 \/ (a.hi = 0 /\ a.lo > 0))

IsoDates == {"2024-01-15", "2024-02-01", "2024-03-01"}

IsExpense(e) == DOMAIN e = ExpenseKeys

IsValidExpense(e) ==
    /\ IsExpense(e)
    /\ FGt0(e.amount)
    /\ e.category # ""
    /\ e.description # ""
    /\ e.date \in IsoDates

AllExpenses(exps) == \A i \in 1..Len(exps) : IsExpense(exps[i])
AllValid(exps) == \A i \in 1..Len(exps) : IsValidExpense(exps[i])

\* The positions of exps whose record has the given id, and the others.
Matching(exps, id) == {i \in 1..Len(exps) : exps[i].id = id}
Others(exps, id) == (1..Len(exps)) \ Matching(exps, id)
\* The j-th smallest element of a set of positions.
Nth(S, j) == CHOOSE i \in S : Cardinality({m \in S : m < i}) = j - 1

\* C2: delete(id) on a store of expense records returns false and changes
\* nothing when no record has the id; otherwise it removes exactly the
\* records with that id, keeps the others in their order, and returns true.
C2_DeleteRemovesExactlyMatches ==
    [][(last'.op = "delete" /\ AllExpenses(expenses)) =>
        LET id == last'.arg
            k == Cardinality(Matching(expenses, id))
            rest == Others(expenses, id)
        IN  /\ last'.exc = "none"
            /\ k = 0 => (last'.ret = FALSE /\ expenses' = expenses)
            /\ k >= 1 =>
                /\ last'.ret = TRUE
                /\ Len(expenses') = Len(expenses) - k
                /\ \A j \in 1..Len(expenses') :
                       expenses'[j] = expenses[Nth(rest, j)]]_vars

\* C2 witness: the store was saved with three records, two of them sharing
\* an id, and a delete of that id has left exactly the third.
C2_Witness ==
    /\ last.op = "delete"
    /\ last.exc = "none"
    /\ last.ret = TRUE
    /\ disk[DataFile].kind = "json"
    /\ LET old == JsonLoad(disk[DataFile])
       IN  /\ Len(old) = 3
           /\ AllExpenses(old)
           /\ Cardinality(Matching(old, last.arg)) = 2
           /\ old[2].id # last.arg
           /\ expenses = <<old[2]>>

\* C3: a load that directly follows a successful save of a non-empty store
\* of valid records yields the same records, field for field, in order.
C3_SaveLoadRoundTrip ==
    [][(/\ last.op = "save" /\ last.ret = TRUE
        /\ expenses # <<>> /\ AllValid(expenses)
        /\ last'.op = "load" /\ last'.exc = "none")
       => expenses' = expenses]_vars

\* C3 witness: a load has read back a non-empty list of valid records (the
\* data file holds records only after a save has written them).
C3_Witness ==
    /\ last.op = "load"
    /\ last.exc = "none"
    /\ Len(expenses) >= 2
    /\ AllValid(expenses)
    /\ \E i, j \in 1..Len(expenses) : expenses[i].amount # expenses[j].amount

WellFormedFile(f) ==
    /\ f.kind = "json"
    /\ \A i \in 1..Len(f.json) : DOMAIN f.json[i] = ExpenseKeys

\* C4 as claimed: load never raises, and leaves the store empty whenever the
\* data file is missing or is not a well-formed list of records.
C4_LoadNeverRaisesAndRecovers ==
    last.op = "load" =>
        /\ last.exc = "none"
        /\ ~WellFormedFile(disk[DataFile]) => expenses = <<>>

\* C7: a save whose I/O fails returns False without raising and leaves the
\* in-memory collection as it was; the operation that follows a failed save
\* completes without raising on a store of expense records.
C7_FailedSaveKeepsStore ==
    [][/\ (last'.op = "save" /\ last'.arg # "ok") =>
            (last'.exc = "none" /\ last'.ret = FALSE /\ expenses' = expenses)
       /\ (/\ last.op = "save" /\ last.exc = "none" /\ last.ret = FALSE
           /\ AllExpenses(expenses)
           /\ last'.op \in {"add", "delete", "list", "summary", "save"})
            => last'.exc = "none"]_vars

\* C7 witness: a save has broken off while writing a store of two or more
\* expense records, and the records are all still there.
C7_Witness ==
    /\ last.op = "save"
    /\ last.arg = "write_fails"
    /\ last.exc = "none"
    /\ last.ret = FALSE
    /\ disk[DataFile] = Garbage
    /\ Len(expenses) >= 2
    /\ AllExpenses(expenses)

\* C8: add_expense appends one record with the given amount, the stripped
\* category and description and the given date, returns it, keeps the
\* earlier records in place, and leaves every file as it was.
C8_AddAppendsOneRecord ==
    [][last'.op = "add" =>
        LET inp == last'.arg
            n == Len(expenses)
        IN  /\ Len(expenses') = n + 1
            /\ SubSeq(expenses', 1, n) = expenses
            /\ last'.ret = expenses'[n + 1]
            /\ IsExpense(expenses'[n + 1])
            /\ expenses'[n + 1].amount = inp[1]
            /\ expenses'[n + 1].category = Strip(inp[2])
            /\ expenses'[n + 1].description = Strip(inp[3])
            /\ inp[4] # None => expenses'[n + 1].date = inp[4]
            /\ disk' = disk]_vars

\* C8 witness: an add has appended a record whose category and description
\* had to be stripped, after an earlier record, with nothing saved.
C8_Witness ==
    /\ last.op = "add"
    /\ Len(expenses) >= 2
    /\ last.arg[2] # expenses[Len(expenses)].category
    /\ last.arg[3] # expenses[Len(expenses)].description
    /\ disk[DataFile].kind = "missing"

\* The exact value of a double as <<multiple of 2^53, rest>>.
Exact(a) == <<a.hi, a.lo>>

RECURSIVE FloatSumIn(_, _)
\* The float sum of the values of mapping m taken in the order of keys.
FloatSumIn(m, keys) ==
    IF keys = <<>> THEN Zero
    ELSE FAdd(FloatSumIn(m, SubSeq(keys, 1, Len(keys) - 1)), m[keys[Len(keys)]])

RECURSIVE ExactSum(_, _)
ExactSum(m, S) ==
    IF S = {} THEN <<0, 0>>
    ELSE LET c == CHOOSE x \in S : TRUE
             r == ExactSum(m, S \ {c})
         IN  <<r[1] + m[c].hi, r[2] + m[c].lo>>

Orders(S) ==
    {o \in [1..Cardinality(S) -> S] : \A i, j \in DOMAIN o : i # j => o[i] # o[j]}

\* The values of m sum to total: exactly, or as floats added in some order.
SumsTo(m, total) ==
    \/ ExactSum(m, DOMAIN m) = Exact(total)
    \/ \E o \in Orders(DOMAIN m) : FloatSumIn(m, o) = total

-----------------------------------------------------------------------------
(* Properties of a CLI session                                             *)

\* C1 as claimed: at every menu prompt every record of the store has a
\* positive amount, a category, a description and a YYYY-MM-DD date.
C1_EveryRecordValid == pc = "menu" => AllValid(expenses)

\* C5 as claimed: an export on an empty store leaves every file as it was.
C5_ExportEmptyWritesNothing ==
    [][(last'.op = "export" /\ expenses = <<>>) => disk' = disk]_vars

\* The position of a column in a header.
Col(header, k) == CHOOSE i \in 1..Len(header) : header[i] = k

\* The data line's amount field is there and reads as a number above zero.
GoodAmount(header, fields) ==
    /\ Col(header, "amount") <= Len(fields)
    /\ ParseFloat(fields[Col(header, "amount")]).exc = "none"
    /\ FGt0(ParseFloat(fields[Col(header, "amount")]).v)

\* C6 as claimed: an import of a CSV file whose header lacks a required
\* column changes neither the store nor any file; otherwise the lines whose
\* amount is a number above zero are appended in file order after the
\* records already there, the other lines are skipped, and, when the save
\* works, the data file holds the result.
C6_ImportAppendsGoodRows ==
    [][(last'.op = "import" /\ disk[CsvFile].kind = "csv") =>
        LET header == disk[CsvFile].header
            rows == disk[CsvFile].rows
            good == SelectSeq(rows, LAMBDA r : GoodAmount(header, r))
            n == Len(expenses)
        IN  IF ~(Required \subseteq {header[i] : i \in 1..Len(header)})
            THEN expenses' = expenses /\ disk' = disk
            ELSE /\ Len(expenses') = n + Len(good)
                 /\ SubSeq(expenses', 1, n) = expenses
                 /\ \A j \in 1..Len(good) :
                        /\ expenses'[n + j].id = good[j][Col(header, "id")]
                        /\ expenses'[n + j].amount =
                               ParseFloat(good[j][Col(header, "amount")]).v
                 /\ (good # <<>> /\ last'.arg = "ok") =>
                        disk'[DataFile] = JsonDump(expenses')]_vars

\* What a fresh store would load from the data file.
Persisted == load_expenses(<<>>, disk[DataFile], "ok").expenses
InSync == Persisted = expenses

\* C10 as claimed: at a menu prompt the store and the data file differ only
\* after a save has reported failure.
C10_OnlyFailedSaveDesyncs ==
    (pc = "menu" /\ "save_failed" \notin events) => InSync

\* C10 amended: when a manual add, a delete or an import has changed the
\* store and its save worked, the data file holds the store; at a menu
\* prompt the two differ only after a save has reported failure or an export
\* was written over the data file.
C10_SavedAfterEveryChange ==
    /\ []((pc = "menu" /\ events = {}) => InSync)
    /\ [][(/\ last'.op \in {"add_manually", "delete", "import"}
           /\ expenses' # expenses
           /\ last'.ret # "save_failed")
          => InSync']_vars

\* C10 witness: a delete has removed a record, its save worked, and the data
\* file holds the records that are left.
C10_Witness ==
    /\ pc = "menu"
    /\ last.op = "delete"
    /\ last.ret = "deleted"
    /\ events = {}
    /\ expenses # <<>>
    /\ disk[DataFile] = JsonDump(expenses)

====
